---- MODULE Spec2Model ----
(***************************************************************************)
(* Model of shortuuidfield/fields.py: the two Django model fields          *)
(* ShortUUIDField and PrefixShortUUIDField, the module-level south         *)
(* registration, and the values they generate.                             *)
(*                                                                         *)
(* Python strings are sequences of one-character strings.  A Python value  *)
(* held by a model attribute is a record [none, s]: None, or the string s. *)
(* A 128-bit integer (uuid.UUID.int) is a sequence of NumLimbs limbs of    *)
(* LimbBase, most significant limb first, so that the base57 encoding is   *)
(* computed on the real width.                                             *)
(*                                                                         *)
(* shortuuid and django are libraries the module calls.  shortuuid is      *)
(* modelled as its released code computes (int_to_string pads with         *)
(* alphabet[0] to ShortUUID._length and puts the most significant digit    *)
(* first); django's CharField by the attributes and calls fields.py uses.  *)
(* fields.py is Python 2 code (unicode, south).                            *)
(***************************************************************************)
EXTENDS Integers, Sequences, FiniteSets, TLC

VARIABLES
    loaded,     \* import state of shortuuidfield.fields: "unloaded" | "loaded" | "error"
    loadExc,    \* exception raised inside the module-level try block, or "none"
    fld,        \* the declared field (the state __init__ leaves), or NoField
    attr,       \* attr[r]: value of the field's attribute on model instance r
    last,       \* observation of the most recent __init__ / pre_save / formfield call
    pc,         \* pc[r]: position of the pre_save call in flight on instance r
    frame,      \* frame[r]: the local `value` of that call
    obs         \* obs[r]: observation of the pre_save call that last returned on r

vars == <<loaded, loadExc, fld, attr, last, pc, frame, obs>>

concVars == <<pc, frame, obs>>

---------------------------------------------------------------------------
(* Bounds of the model *)

NumRecords == 2

Records == 1..NumRecords

---------------------------------------------------------------------------
(* Python values *)

PyNone == [none |-> TRUE, s |-> <<>>]

Str(s) == [none |-> FALSE, s |-> s]

\* Python truthiness of an attribute value: None and "" are falsy.
Truthy(v) == ~v.none /\ Len(v.s) > 0

---------------------------------------------------------------------------
(* uuid.uuid4() and shortuuid's base57 encoding *)

NumLimbs == 8

LimbBase == 65536

\* shortuuid's default alphabet (57 characters).
Alphabet ==
    << "2","3","4","5","6","7","8","9",
       "A","B","C","D","E","F","G","H","J","K","L","M","N","P","Q","R","S",
       "T","U","V","W","X","Y","Z",
       "a","b","c","d","e","f","g","h","i","j","k","m","n","o","p","q","r",
       "s","t","u","v","w","x","y","z" >>

AlphabetChars == { Alphabet[i] : i \in 1..Len(Alphabet) }

\* 16 random bytes from os.urandom, as limbs: the samples the model draws from.
RandomSamples ==
    { [i \in 1..NumLimbs |-> 0],
      [i \in 1..NumLimbs |-> LimbBase - 1],
      <<4660, 22136, 39612, 57072, 291, 17767, 35243, 52719>> }

\* uuid.UUID(bytes=..., version=4): variant bits 62..63 set to 10, version
\* bits 76..79 set to 4.
uuid4(rnd) ==
    [i \in 1..NumLimbs |->
        IF i = 4 THEN (rnd[i] % 4096) + 16384
        ELSE IF i = 5 THEN (rnd[i] % 16384) + 32768
        ELSE rnd[i]]

IsZero(n) == \A i \in 1..NumLimbs : n[i] = 0

\* divmod(number, d) on limbs, by long division: <<quotient, remainder>>.
RECURSIVE DivModFrom(_, _, _, _, _)
DivModFrom(n, d, i, carry, q) ==
    IF i > NumLimbs THEN <<q, carry>>
    ELSE LET cur == carry * LimbBase + n[i]
         IN  DivModFrom(n, d, i + 1, cur % d, Append(q, cur \div d))

DivMod(n, d) == DivModFrom(n, d, 1, 0, <<>>)

Reverse(s) == [i \in 1..Len(s) |-> s[Len(s) + 1 - i]]

Repeat(c, k) == [i \in 1..k |-> c]

Max(a, b) == IF a >= b THEN a ELSE b

\* shortuuid.int_to_string: digits least significant first, padded with
\* alphabet[0] up to `padding`, then reversed.
RECURSIVE Digits(_, _, _)
Digits(number, alphabet, output) ==
    IF IsZero(number) THEN output
    ELSE LET dm == DivMod(number, Len(alphabet))
         IN  Digits(dm[1], alphabet, Append(output, alphabet[dm[2] + 1]))

int_to_string(number, alphabet, padding) ==
    LET output == Digits(number, alphabet, <<>>)
        remainder == Max(padding - Len(output), 0)
    IN  Reverse(output \o Repeat(alphabet[1], remainder))

\* ShortUUID._length: ceil(log(2**128, len(alphabet))), i.e. the least k with
\* len(alphabet)**k >= 2**128: the number of digits of 2**128 - 1.
EncodedLength == Len(Digits([i \in 1..NumLimbs |-> LimbBase - 1], Alphabet, <<>>))

\* shortuuid.encode(u): pad_length defaults to ShortUUID._length.
encode(u) == int_to_string(u, Alphabet, EncodedLength)

\* encode(uuid4()) for each sample of randomness, computed once.
EncodedUuid4 == [rnd \in RandomSamples |-> encode(uuid4(rnd))]

\* shortuuid.uuid(): encode(uuid4()).
shortuuid_uuid(rnd) == EncodedUuid4[rnd]

---------------------------------------------------------------------------
(* Python dicts (keyword arguments) as functions on a set of keys *)

\* d[k] = v
SetItem(d, k, v) == [x \in DOMAIN d \cup {k} |-> IF x = k THEN v ELSE d[x]]

\* d.get(k, default)
Get(d, k, default) == IF k \in DOMAIN d THEN d[k] ELSE default

\* d.update(e)
Update(d, e) == [x \in DOMAIN d \cup DOMAIN e |-> IF x \in DOMAIN e THEN e[x] ELSE d[x]]

EmptyDict == <<>>

\* The keyword arguments a caller may pass to a field's constructor.
KwargsSet ==
    { Update(Update(Update(a, b), c), d) :
        a \in {EmptyDict, [max_length |-> 30]},
        b \in {EmptyDict, [editable |-> TRUE], [editable |-> FALSE]},
        c \in {EmptyDict, [blank |-> TRUE], [blank |-> FALSE]},
        d \in {EmptyDict, [unique |-> TRUE]} }

\* The prefix_str values a caller may pass (the default "uu-" among them).
DefaultPrefix == <<"u", "u", "-">>

Prefixes == { <<>>, DefaultPrefix, <<"i", "d", "_", "0", "1">> }

\* The keyword arguments a caller may pass to formfield.
FormOptions == { EmptyDict, [required |-> TRUE] }

\* Values a caller may assign to the attribute of a model instance.
AssignValues == { PyNone, Str(<<>>), Str(<<"a", "b", "c">>) }

---------------------------------------------------------------------------
(* Constructors *)

PlainMaxLength == 22

PrefixExtraLength == 8

TruncateLength == 8

NoField ==
    [cls |-> "none", auto |-> FALSE, prefix_str |-> <<>>, max_length |-> 0,
     editable |-> FALSE, blank |-> FALSE, unique |-> FALSE]

\* django CharField.__init__(**kwargs): the attributes the keyword arguments
\* set, with Field's defaults (editable=True, blank=False, unique=False).
CharField_init(cls, auto, prefix_str, kwargs) ==
    [cls |-> cls, auto |-> auto, prefix_str |-> prefix_str,
     max_length |-> Get(kwargs, "max_length", 0),
     editable |-> Get(kwargs, "editable", TRUE),
     blank |-> Get(kwargs, "blank", FALSE),
     unique |-> Get(kwargs, "unique", FALSE)]

\* The keyword arguments ShortUUIDField.__init__ hands to CharField.__init__.
ShortUUIDField_kwargs(auto, kwargs) ==
    LET k1 == SetItem(kwargs, "max_length", PlainMaxLength)
    IN  IF auto
        THEN SetItem(SetItem(k1, "editable", FALSE), "blank", TRUE)
        ELSE k1

ShortUUIDField_init(auto, kwargs) ==
    CharField_init("ShortUUIDField", auto, <<>>, ShortUUIDField_kwargs(auto, kwargs))
\* Mutant: kwargs.setdefault('max_length', ...) keeps a caller's max_length.
PrefixShortUUIDField_kwargs_SetDefault(auto, prefix_str, kwargs) ==
    LET k1 == IF "max_length" \in DOMAIN kwargs THEN kwargs
              ELSE SetItem(kwargs, "max_length", Len(prefix_str) + PrefixExtraLength)
    IN  IF auto
        THEN SetItem(SetItem(k1, "editable", FALSE), "blank", TRUE)
        ELSE k1

\* The keyword arguments PrefixShortUUIDField.__init__ hands to CharField.__init__.
PrefixShortUUIDField_kwargs(auto, prefix_str, kwargs) ==
    LET k1 == SetItem(kwargs, "max_length", Len(prefix_str) + PrefixExtraLength)
    IN  IF auto
        THEN SetItem(SetItem(k1, "editable", FALSE), "blank", TRUE)
        ELSE k1

PrefixShortUUIDField_init(auto, prefix_str, kwargs) ==
    CharField_init("PrefixShortUUIDField", auto, prefix_str,
                   PrefixShortUUIDField_kwargs(auto, prefix_str, kwargs))

---------------------------------------------------------------------------
(* pre_save *)

\* django Field.pre_save(model_instance, add): getattr(model_instance, attname).
Field_pre_save(value, add) == value

\* s[:n]
Slice(s, n) == SubSeq(s, 1, IF n <= Len(s) THEN n ELSE Len(s))

\* Outcome of a pre_save call: the value returned, the attribute afterwards,
\* whether a value was generated and whether setattr was called.
Kept(value, current) ==
    [ret |-> value, attr |-> current, generated |-> FALSE, wrote |-> FALSE]

Assigned(value) ==
    [ret |-> value, attr |-> value, generated |-> TRUE, wrote |-> TRUE]
\* Mutant: the prefix literal "uu-" instead of self.prefix_str.
PrefixShortUUIDField_generate_DefaultPrefix(self, rnd) ==
    Str(DefaultPrefix \o Slice(EncodedUuid4[rnd], TruncateLength))

\* Mutant: the encoding is not truncated.
PrefixShortUUIDField_generate_Untruncated(self, rnd) ==
    Str(self.prefix_str \o EncodedUuid4[rnd])

\* Mutant: a value is generated on every save of an auto field.
ShortUUIDField_must_generate_Always(self, value, add) == self.auto

\* Mutant: a value is generated on the initial save only.
ShortUUIDField_must_generate_InsertOnly(self, value, add) ==
    add /\ self.auto /\ ~Truthy(value)

\* Mutant: self.auto is not consulted.
PrefixShortUUIDField_must_generate_IgnoreAuto(self, value, add) == ~Truthy(value)

\* unicode(shortuuid.uuid()): unicode() keeps the characters of an ASCII string.
ShortUUIDField_generate(self, rnd) == Str(shortuuid_uuid(rnd))

\* "%s%s" % (self.prefix_str, str(shortuuid.encode(uuid.uuid4()))[:8])
PrefixShortUUIDField_generate(self, rnd) ==
    Str(self.prefix_str \o Slice(EncodedUuid4[rnd], TruncateLength))

\* if self.auto and not value
ShortUUIDField_must_generate(self, value, add) == self.auto /\ ~Truthy(value)

PrefixShortUUIDField_must_generate(self, value, add) == self.auto /\ ~Truthy(value)

ShortUUIDField_pre_save(self, current, add, rnd) ==
    LET value == Field_pre_save(current, add)
    IN  IF ShortUUIDField_must_generate(self, value, add)
        THEN Assigned(ShortUUIDField_generate(self, rnd))
        ELSE Kept(value, current)

PrefixShortUUIDField_pre_save(self, current, add, rnd) ==
    LET value == Field_pre_save(current, add)
    IN  IF PrefixShortUUIDField_must_generate(self, value, add)
        THEN Assigned(PrefixShortUUIDField_generate(self, rnd))
        ELSE Kept(value, current)

pre_save(self, current, add, rnd) ==
    IF self.cls = "ShortUUIDField"
    THEN ShortUUIDField_pre_save(self, current, add, rnd)
    ELSE PrefixShortUUIDField_pre_save(self, current, add, rnd)

---------------------------------------------------------------------------
(* formfield *)

FormNone == [none |-> TRUE, args |-> EmptyDict]
\* Mutant: the test on self.auto inverted.
ShortUUIDField_formfield_Inverted(self, kwargs) ==
    IF ~self.auto
    THEN [none |-> TRUE, args |-> EmptyDict]
    ELSE [none |-> FALSE,
          args |-> Update([max_length |-> self.max_length, required |-> ~self.blank],
                          kwargs)]

\* django CharField.formfield(**kwargs): a forms.CharField built from
\* max_length and required = not blank, overridden by the caller's kwargs.
CharField_formfield(self, kwargs) ==
    [none |-> FALSE,
     args |-> Update([max_length |-> self.max_length, required |-> ~self.blank], kwargs)]

ShortUUIDField_formfield(self, kwargs) ==
    IF self.auto THEN FormNone ELSE CharField_formfield(self, kwargs)

PrefixShortUUIDField_formfield(self, kwargs) ==
    IF self.auto THEN FormNone ELSE CharField_formfield(self, kwargs)

formfield(self, kwargs) ==
    IF self.cls = "ShortUUIDField"
    THEN ShortUUIDField_formfield(self, kwargs)
    ELSE PrefixShortUUIDField_formfield(self, kwargs)

---------------------------------------------------------------------------
(* Module-level south registration *)

Exceptions == {"none", "ImportError", "OtherError"}

\* What the environment does to the three statements of the try block: the
\* import of south.modelsinspector and the two add_introspection_rules calls.
SouthEnvs == [import : Exceptions, call1 : Exceptions, call2 : Exceptions]

\* The exception the try block raises: that of its first failing statement.
TryBlock(env) ==
    IF env.import # "none" THEN env.import
    ELSE IF env.call1 # "none" THEN env.call1
    ELSE env.call2
\* Mutant: a bare except.
ExceptClause_Bare(exc) == TRUE

\* except ImportError: pass
ExceptClause(exc) == exc = "ImportError"

\* The exception that leaves the module body, or "none".
ModuleBody(env) ==
    LET exc == TryBlock(env)
    IN  IF exc = "none" \/ ExceptClause(exc) THEN "none" ELSE exc

---------------------------------------------------------------------------
(* State machine *)
\* Mutant: the value is stored on the class, shared by every instance.
setattr_Shared(a, r, value) == [x \in DOMAIN a |-> value]

\* setattr(model_instance, self.attname, value) on instance r.
setattr(a, r, value) == [a EXCEPT ![r] = value]

NoFrame == PyNone

NoObs ==
    [called |-> FALSE, entry |-> PyNone, ret |-> PyNone, after |-> PyNone,
     generated |-> 0]

NoCall ==
    [op |-> "none", rec |-> 0, add |-> FALSE, before |-> PyNone, ret |-> PyNone,
     generated |-> FALSE, wrote |-> FALSE, rnd |-> <<>>,
     opts |-> EmptyDict, form |-> FormNone]

Init ==
    /\ loaded = "unloaded"
    /\ loadExc = "none"
    /\ fld = NoField
    /\ attr = [r \in Records |-> Str(<<>>)]
    /\ last = NoCall
    /\ pc = [r \in Records |-> "idle"]
    /\ frame = [r \in Records |-> NoFrame]
    /\ obs = [r \in Records |-> NoObs]

\* import shortuuidfield.fields
LoadModule(env) ==
    /\ loaded = "unloaded"
    /\ loadExc' = TryBlock(env)
    /\ loaded' = IF ModuleBody(env) = "none" THEN "loaded" ELSE "error"
    /\ UNCHANGED <<fld, attr, last, concVars>>

\* field = ShortUUIDField(auto, **kwargs)
ConstructPlain(auto, kwargs) ==
    /\ loaded = "loaded"
    /\ fld.cls = "none"
    /\ fld' = ShortUUIDField_init(auto, kwargs)
    /\ last' = [NoCall EXCEPT !.op = "init", !.opts = kwargs]
    /\ UNCHANGED <<loaded, loadExc, attr, concVars>>

\* field = PrefixShortUUIDField(auto, prefix_str, **kwargs)
ConstructPrefix(auto, prefix_str, kwargs) ==
    /\ loaded = "loaded"
    /\ fld.cls = "none"
    /\ fld' = PrefixShortUUIDField_init(auto, prefix_str, kwargs)
    /\ last' = [NoCall EXCEPT !.op = "init", !.opts = kwargs]
    /\ UNCHANGED <<loaded, loadExc, attr, concVars>>

\* The caller assigns the attribute of instance r.
Assign(r, v) ==
    /\ fld.cls # "none"
    /\ attr[r] # v
    /\ attr' = [attr EXCEPT ![r] = v]
    /\ last' = NoCall
    /\ UNCHANGED <<loaded, loadExc, fld, concVars>>

\* The ORM saves instance r: field.pre_save(r, add).
PreSave(r, add, rnd) ==
    /\ fld.cls # "none"
    /\ LET out == pre_save(fld, attr[r], add, rnd)
       IN  /\ attr' = IF out.wrote THEN setattr(attr, r, out.attr) ELSE attr
           /\ last' = [NoCall EXCEPT !.op = "pre_save", !.rec = r, !.add = add,
                          !.before = attr[r], !.ret = out.ret,
                          !.generated = out.generated, !.wrote = out.wrote,
                          !.rnd = IF out.generated THEN rnd ELSE <<>>]
    /\ UNCHANGED <<loaded, loadExc, fld, concVars>>

\* A form is built: field.formfield(**opts).
FormField(opts) ==
    /\ fld.cls # "none"
    /\ last' = [NoCall EXCEPT !.op = "formfield", !.opts = opts,
                   !.form = formfield(fld, opts)]
    /\ UNCHANGED <<loaded, loadExc, fld, attr, concVars>>

Next ==
    \/ \E env \in SouthEnvs : LoadModule(env)
    \/ \E auto \in BOOLEAN, kwargs \in KwargsSet : ConstructPlain(auto, kwargs)
    \/ \E auto \in BOOLEAN, prefix_str \in Prefixes, kwargs \in KwargsSet :
          ConstructPrefix(auto, prefix_str, kwargs)
    \/ \E r \in Records, v \in AssignValues : Assign(r, v)
    \/ \E r \in Records, add \in BOOLEAN, rnd \in RandomSamples : PreSave(r, add, rnd)
    \/ \E opts \in FormOptions : FormField(opts)

Spec == Init /\ [][Next]_vars

---------------------------------------------------------------------------
(* pre_save statement by statement, with calls on distinct instances         *)
(* interleaved.  The field is one already declared with default arguments.   *)

DeclaredFields ==
    { ShortUUIDField_init(auto, EmptyDict) : auto \in BOOLEAN }
    \cup { PrefixShortUUIDField_init(auto, DefaultPrefix, EmptyDict) : auto \in BOOLEAN }

ConcInit ==
    /\ loaded = "loaded"
    /\ loadExc = "none"
    /\ fld \in DeclaredFields
    /\ attr = [r \in Records |-> Str(<<>>)]
    /\ last = NoCall
    /\ pc = [r \in Records |-> "idle"]
    /\ frame = [r \in Records |-> NoFrame]
    /\ obs = [r \in Records |-> NoObs]

must_generate(self, value, add) ==
    IF self.cls = "ShortUUIDField"
    THEN ShortUUIDField_must_generate(self, value, add)
    ELSE PrefixShortUUIDField_must_generate(self, value, add)

generate(self, rnd) ==
    IF self.cls = "ShortUUIDField"
    THEN ShortUUIDField_generate(self, rnd)
    ELSE PrefixShortUUIDField_generate(self, rnd)

\* value = super().pre_save(model_instance, add); if self.auto and not value
StepCall(r, add) ==
    /\ pc[r] = "idle"
    /\ LET value == Field_pre_save(attr[r], add)
       IN  /\ frame' = [frame EXCEPT ![r] = value]
           /\ pc' = [pc EXCEPT ![r] =
                        IF must_generate(fld, value, add) THEN "generate" ELSE "return"]
    /\ obs' = [obs EXCEPT ![r] = [NoObs EXCEPT !.entry = attr[r]]]
    /\ UNCHANGED <<loaded, loadExc, fld, attr, last>>

\* value = <a new identifier>
StepGenerate(r, rnd) ==
    /\ pc[r] = "generate"
    /\ frame' = [frame EXCEPT ![r] = generate(fld, rnd)]
    /\ obs' = [obs EXCEPT ![r].generated = @ + 1]
    /\ pc' = [pc EXCEPT ![r] = "setattr"]
    /\ UNCHANGED <<loaded, loadExc, fld, attr, last>>

\* setattr(model_instance, self.attname, value)
StepSetAttr(r) ==
    /\ pc[r] = "setattr"
    /\ attr' = setattr(attr, r, frame[r])
    /\ pc' = [pc EXCEPT ![r] = "return"]
    /\ UNCHANGED <<loaded, loadExc, fld, last, frame, obs>>

\* return value
StepReturn(r) ==
    /\ pc[r] = "return"
    /\ obs' = [obs EXCEPT ![r] = [@ EXCEPT !.called = TRUE, !.ret = frame[r],
                                            !.after = attr[r]]]
    /\ frame' = [frame EXCEPT ![r] = NoFrame]
    /\ pc' = [pc EXCEPT ![r] = "idle"]
    /\ UNCHANGED <<loaded, loadExc, fld, attr, last>>

\* The caller assigns the attribute of an instance that is not being saved.
ConcAssign(r, v) ==
    /\ pc[r] = "idle"
    /\ attr[r] # v
    /\ attr' = [attr EXCEPT ![r] = v]
    /\ obs' = [obs EXCEPT ![r] = NoObs]
    /\ UNCHANGED <<loaded, loadExc, fld, last, pc, frame>>

ConcNext ==
    \/ \E r \in Records, add \in BOOLEAN : StepCall(r, add)
    \/ \E r \in Records, rnd \in RandomSamples : StepGenerate(r, rnd)
    \/ \E r \in Records : StepSetAttr(r)
    \/ \E r \in Records : StepReturn(r)
    \/ \E r \in Records, v \in AssignValues : ConcAssign(r, v)

ConcSpec == ConcInit /\ [][ConcNext]_vars

---------------------------------------------------------------------------
(* Properties *)

IsPreSave == last.op = "pre_save"

IsPlain == fld.cls = "ShortUUIDField"

IsPrefixed == fld.cls = "PrefixShortUUIDField"

\* C1: with auto=true, a pre_save call on an instance whose attribute holds a
\* non-empty value returns that value, generates nothing, does not call
\* setattr and leaves the attribute as it was, for either value of `add`.
C1_SetValueKept ==
    (IsPreSave /\ fld.auto /\ Truthy(last.before)) =>
        /\ last.ret = last.before
        /\ attr[last.rec] = last.before
        /\ ~last.generated
        /\ ~last.wrote

\* A second save (add = False) of an instance whose value an earlier save generated.
C1_Witness ==
    /\ IsPreSave /\ fld.auto /\ ~last.add
    /\ Truthy(last.before)
    /\ Len(last.before.s) = fld.max_length
    /\ attr[last.rec] = last.before

\* C2: with auto=true, a pre_save call on an instance whose attribute is empty
\* or None leaves on the instance a non-empty string whose length is the
\* field's max_length (22 for the plain field, len(prefix_str) + 8 for the
\* prefixed one), and returns that same string.
C2_GeneratedLength ==
    (IsPreSave /\ fld.auto /\ ~Truthy(last.before)) =>
        /\ ~attr[last.rec].none
        /\ Len(attr[last.rec].s) > 0
        /\ Len(attr[last.rec].s) = fld.max_length
        /\ IsPlain => Len(attr[last.rec].s) = 22
        /\ IsPrefixed => Len(attr[last.rec].s) = Len(fld.prefix_str) + 8
        /\ last.ret = attr[last.rec]

\* The prefixed field with the empty prefix generates on an instance whose attribute is None.
C2_Witness ==
    /\ IsPreSave /\ fld.auto /\ IsPrefixed
    /\ fld.prefix_str = <<>>
    /\ last.before.none
    /\ last.generated

\* C3: a value the prefixed field generates is prefix_str followed by exactly
\* the first 8 characters of the base57 encoding of the uuid4 drawn, all of
\* them in the base57 alphabet.
C3_PrefixedShape ==
    (IsPreSave /\ IsPrefixed /\ last.generated) =>
        LET s == last.ret.s
            p == fld.prefix_str
            e == int_to_string(uuid4(last.rnd), Alphabet, 22)
        IN  /\ ~last.ret.none
            /\ Len(s) = Len(p) + 8
            /\ SubSeq(s, 1, Len(p)) = p
            /\ \A i \in 1..8 : s[Len(p) + i] = e[i] /\ s[Len(p) + i] \in AlphabetChars

\* The prefixed field with a prefix other than the default generates from a
\* uuid whose encoding starts with padding.
C3_Witness ==
    /\ IsPreSave /\ IsPrefixed /\ last.generated
    /\ fld.prefix_str = <<"i", "d", "_", "0", "1">>
    /\ last.rnd = [i \in 1..NumLimbs |-> 0]

\* C4: with auto=false, a pre_save call generates nothing, does not call
\* setattr, returns the attribute's current value (empty and None included)
\* and leaves the attribute as it was.
C4_NoAutoNoGeneration ==
    (IsPreSave /\ ~fld.auto) =>
        /\ ~last.generated
        /\ ~last.wrote
        /\ last.ret = last.before
        /\ attr[last.rec] = last.before

\* An insert save (add = True) of an instance whose attribute is None, auto=false.
C4_Witness ==
    /\ IsPreSave /\ ~fld.auto /\ last.add
    /\ last.before.none
    /\ IsPrefixed

\* C5: formfield returns None exactly when the field's auto is true; with
\* auto=false it returns what CharField.formfield returns for the same options.
C5_FormField ==
    (last.op = "formfield") =>
        /\ last.form.none <=> fld.auto
        /\ ~fld.auto => last.form = CharField_formfield(fld, last.opts)

\* formfield called with options on a plain field with auto=false.
C5_Witness ==
    /\ last.op = "formfield"
    /\ IsPlain /\ ~fld.auto
    /\ last.opts # EmptyDict
    /\ ~last.form.none

\* C6: a declared field has max_length 22 (plain) or len(prefix_str) + 8
\* (prefixed) whatever max_length the caller passed; with auto=true it is not
\* editable and blank is allowed whatever the caller passed; with auto=false
\* editable and blank are the caller's (or Field's defaults).
C6_Constraints ==
    /\ IsPlain => fld.max_length = 22
    /\ IsPrefixed => fld.max_length = Len(fld.prefix_str) + 8
    /\ (fld.cls # "none" /\ fld.auto) => (~fld.editable /\ fld.blank)
    /\ (last.op = "init" /\ ~fld.auto) =>
          /\ fld.editable = Get(last.opts, "editable", TRUE)
          /\ fld.blank = Get(last.opts, "blank", FALSE)

\* A prefixed auto field declared with max_length=30, editable=True, blank=False.
C6_Witness ==
    /\ last.op = "init"
    /\ IsPrefixed /\ fld.auto
    /\ "max_length" \in DOMAIN last.opts
    /\ Get(last.opts, "editable", FALSE)
    /\ ~Get(last.opts, "blank", TRUE)

\* C7 as stated: loading the module never ends in an error, whether south is
\* absent or its registration fails.
C7_LoadNeverFails == loaded # "error"

\* C7 amended: loading the module completes when the try block raises nothing
\* or raises ImportError (south absent); any other exception raised by the
\* import or by a registration call leaves the module body.
C7_OnlyImportErrorSwallowed ==
    /\ loaded = "loaded" => loadExc \in {"none", "ImportError"}
    /\ loaded = "error" => loadExc \notin {"none", "ImportError"}
    /\ loaded = "unloaded" => loadExc = "none"

\* south absent: the ImportError is swallowed and a field is declared and used.
C7_Witness ==
    /\ loaded = "loaded"
    /\ loadExc = "ImportError"
    /\ IsPreSave /\ last.generated

\* C8: every ShortUUIDField is declared unique.
C8_DeclaredUnique == IsPlain => fld.unique

SerialOutcomes(entry) ==
    { pre_save(fld, entry, add, rnd) : add \in BOOLEAN, rnd \in RandomSamples }

C9_Step ==
    /\ fld' = fld
    /\ \A q \in Records :
          pc'[q] # pc[q] =>
              \A r \in Records \ {q} :
                  attr'[r] = attr[r] /\ frame'[r] = frame[r] /\ pc'[r] = pc[r]
    /\ \A r \in Records :
          obs'[r].called =>
              /\ obs'[r].generated <= 1
              /\ \E out \in SerialOutcomes(obs'[r].entry) :
                    /\ out.ret = obs'[r].ret
                    /\ out.attr = obs'[r].after
                    /\ out.generated <=> (obs'[r].generated = 1)

\* C9: under any interleaving of pre_save calls on distinct instances, a step
\* of the call on one instance changes no other instance's attribute or call
\* and never the field; each call generates at most one value, and what it
\* returns and leaves on its instance is what the call run alone would.
C9_Independent == [][C9_Step]_vars

\* Two calls in flight together: one has returned a generated value while the
\* other, having generated a different one, has not returned yet.
C9_Witness ==
    \E r, q \in Records :
        /\ r # q
        /\ obs[r].called /\ obs[r].generated = 1
        /\ pc[q] = "return" /\ obs[q].generated = 1
        /\ attr[r] # attr[q]

====
